---- MODULE Spec2Model ----
(***************************************************************************)
(* A model of bandcamp.py: the cookie store built from raw cookie records, *)
(* the browser login with its persisted cookie cache, the download-url     *)
(* join, the recursive walk over the collection-items pages, and the       *)
(* per-album resolve / download / extract / lock lifecycle on disk.        *)
(*                                                                         *)
(* The program is sequential; pc is its position.  Each component has a    *)
(* specification of its own that starts at the component's entry point:    *)
(*   SpecCookies     parse_cookie_list over lists of cookie records        *)
(*   SpecLogin       bandcamp_login, run after run over the same cache     *)
(*   SpecMain        the argument test of __main__ and bandcamp_login      *)
(*   SpecBlob        BandcampBlobParser.feed and the ParseUserInfo         *)
(*                   accessors, over documents of start tags               *)
(*   SpecCollection  ParseUserInfo.albums and get_collection               *)
(*   LiveCollection  the same, with every enabled step eventually taken    *)
(*   SpecFetch       the per-album loop of __main__, run after run over    *)
(*                   the same music directory                              *)
(***************************************************************************)
EXTENDS Integers, Sequences, FiniteSets, TLC

VARIABLES
    pc,          \* position of the program
    run,         \* number of the current run of the program
    now,         \* last value read from time.time()
    cookiefile,  \* content of the file .cookies, or NoFile
    cookie_jar,  \* the RequestsCookieJar under construction / returned
    cookies,     \* the list of raw cookie records being parsed
    driver,      \* the Firefox driver: "none", "open" or "quit"
    starts,      \* calls of webdriver.Firefox() in this run
    quits,       \* calls of driver.quit() in this run
    exc,         \* the exception raised: pending in the try block, or ending the run
    reused,      \* bandcamp_login returned the jar built from the cache
    data,        \* ParseUserInfo: the blob of the profile page, as a dict
    fan_id,      \* the fan_id argument of get_collection
    albums,      \* the accumulated list of albums
    gc_token,    \* get_collection: the last_token argument of this call
    resp,        \* get_collection: response.json() of this call, or None
    posts,       \* the bodies of the collection-items requests sent
    seed,        \* the albums get_collection was first called with
    pages,       \* the responses the server has returned, as sent
    joined,      \* arguments and result of the last map_download_urls call
    idx,         \* __main__: index in albums of the album being processed
    download_url,\* DownloadAlbum.__download_url of the current downloader
    net,         \* network calls made for the current album
    dirs,        \* directories that exist under the music directory
    files,       \* files under the music directory: path -> content
    fs0,         \* dirs and files as they were when the current album began
    body,        \* the bytes the download request returned for this album
    trail,       \* the steps completed for the current album, in order
    ended,       \* the position at which the run failed or was stopped
    fetched,     \* albums whose download and extract have both completed
    done,        \* the steps of each album this run has finished with, in order
    html,        \* the start tags of the document given to feed()
    pos,         \* feed(): the number of start tags handled so far
    argv,        \* len(sys.argv)
    out          \* the lines printed by __main__

vars == <<pc, run, now, cookiefile, cookie_jar, cookies, driver, starts,
          quits, exc, reused, data, fan_id, albums, gc_token, resp, posts, seed, pages,
          joined, idx, download_url, net, dirs, files, fs0, body, trail,
          ended, fetched, done, html, pos, argv, out>>

loginVars == <<cookiefile, cookie_jar, cookies, driver, starts, quits,
               exc, reused>>
collVars == <<data, fan_id, albums, gc_token, resp, posts, seed, pages, joined>>
fetchVars == <<idx, download_url, net, dirs, files, fs0, body, trail, ended,
               fetched, done>>
pageVars == <<html, pos>>
mainVars == <<argv, out>>

(***************************************************************************)
(* Bounds                                                                  *)
(***************************************************************************)
MaxCookies == 2   \* longest list of cookie records given to SpecCookies
MaxRuns == 2      \* runs of the program over the same files
MaxPosts == 3     \* collection-items requests of one get_collection walk
MaxAlbums == 2    \* longest list of albums given to the per-album loop

(***************************************************************************)
(* Python values                                                           *)
(***************************************************************************)
None == "None"                      \* None where a string may stand
NoFile == "NoFile"                  \* os.path.exists(...) is False
NoExpiry == << >>                   \* cookie['expiry'] is None
EmptyJar == [k \in {} |-> None]
EmptyFiles == [p \in {} |-> None]

\* Truth value of an 'expiry' field: None and 0 are false.
ExpiryTruthy(e) == e # NoExpiry /\ e[1] # 0

(***************************************************************************)
(* Cookie records and the cookie store (RequestsCookieJar)                 *)
(***************************************************************************)
Names == {"client_id", "identity"}
Values == {"v", "w"}
Domains == {"bandcamp.com", ".bandcamp.com"}
Expiries == {NoExpiry, <<0>>, <<1>>, <<3>>}
Times == {1, 2}

Ck(n, v, d, e) == [name |-> n, value |-> v, domain |-> d, path |-> "/", expiry |-> e]

CookieRecords == {Ck(n, v, d, e) : n \in Names, v \in Values, d \in Domains, e \in Expiries}

CookieLists == UNION {[1..n -> CookieRecords] : n \in 0..MaxCookies}

\* cookie_jar.set(name, value, domain=, path=, expires=): the jar holds one
\* cookie per (domain, path, name); a later set replaces an earlier one.
jar_key(cookie) == <<cookie.domain, cookie.path, cookie.name>>

jar_set(jar, cookie) ==
    (jar_key(cookie) :> [value |-> cookie.value, expires |-> cookie.expiry]) @@ jar

\* cookie['expiry'] and cookie['expiry'] < now
expired(cookie, t) == ExpiryTruthy(cookie.expiry) /\ cookie.expiry[1] < t

\* One pass of the loop body of parse_cookie_list.
cookie_step(jar, cookie, t) ==
    IF expired(cookie, t) THEN jar ELSE jar_set(jar, cookie)

RECURSIVE parse_from(_, _, _, _)
parse_from(jar, cs, i, t) ==
    IF i > Len(cs) THEN jar
    ELSE parse_from(cookie_step(jar, cs[i], t), cs, i + 1, t)

parse_cookie_list(cs, t) == parse_from(EmptyJar, cs, 1, t)

\* cookie_jar.get(name): the cookies of that name, whatever domain and path.
jar_named(jar, n) == {k \in DOMAIN jar : k[3] = n}

\* Two cookies of one name: get raises CookieConflictError.
jar_conflict(jar, n) == Cardinality(jar_named(jar, n)) > 1

\* The value get returns; a cookie whose value is "" counts as not found.
jar_get(jar, n) ==
    IF jar_named(jar, n) = {} THEN None
    ELSE LET v == jar[CHOOSE k \in jar_named(jar, n) : TRUE].value
         IN  IF v = "" THEN None ELSE v

\* BandcampBlobParser.data while the blob is None: {}.
NoData == [k \in {} |-> None]

\* No response is being handled.
NoResp == [k \in {} |-> None]

\* No map_download_urls call has been made yet.
NoJoin == [site |-> "none", urls |-> [k \in {} |-> None], given |-> << >>, result |-> << >>]

(***************************************************************************)
(* Values of the variables a component does not use                        *)
(***************************************************************************)
LoginIdle ==
    /\ cookiefile = NoFile /\ cookie_jar = EmptyJar /\ cookies = << >>
    /\ driver = "none" /\ starts = 0 /\ quits = 0 /\ exc = None
    /\ reused = FALSE

CollIdle ==
    /\ data = NoData /\ fan_id = 0 /\ albums = << >> /\ gc_token = "" /\ resp = NoResp /\ posts = << >>
    /\ seed = << >> /\ pages = << >> /\ joined = NoJoin

\* The content of a file that has been created and not written to.
Empty == [kind |-> "empty", of |-> 0, name |-> ""]

FetchIdle ==
    /\ idx = 0 /\ download_url = None /\ net = 0 /\ dirs = {}
    /\ files = EmptyFiles /\ fs0 = [dirs |-> {}, files |-> EmptyFiles]
    /\ body = Empty /\ trail = << >> /\ ended = None /\ fetched = {}
    /\ done = << >>

PageIdle == html = << >> /\ pos = 0

\* The program was started with a username and a password.
MainIdle == argv = 3 /\ out = << >>

(***************************************************************************)
(* SpecCookies: parse_cookie_list on every list of cookie records          *)
(***************************************************************************)
InitCookies ==
    /\ pc = "parse_cookie_list" /\ run = 1
    /\ now \in Times
    /\ cookies \in CookieLists
    /\ cookiefile = NoFile /\ cookie_jar = EmptyJar
    /\ driver = "none" /\ starts = 0 /\ quits = 0 /\ exc = None
    /\ reused = FALSE
    /\ CollIdle /\ FetchIdle /\ PageIdle /\ MainIdle

\* parse_cookie_list(cookies), with now as the value time.time() returned.
ParseCookieList ==
    /\ pc = "parse_cookie_list"
    /\ cookie_jar' = parse_cookie_list(cookies, now)
    /\ pc' = "parsed"
    /\ UNCHANGED <<pageVars, mainVars, run, now, cookiefile, cookies, driver, starts, quits, exc,
                   reused, collVars, fetchVars>>

NextCookies == ParseCookieList

SpecCookies == InitCookies /\ [][NextCookies]_vars

\* A record is in the store: its key holds its value and its expiry.
InStore(jar, cookie) ==
    /\ jar_key(cookie) \in DOMAIN jar
    /\ jar[jar_key(cookie)] = [value |-> cookie.value, expires |-> cookie.expiry]

\* The key of a record holds the record's value.
InStoreWithValue(jar, cookie) ==
    /\ jar_key(cookie) \in DOMAIN jar
    /\ jar[jar_key(cookie)].value = cookie.value

\* C4: in the store parse_cookie_list built, no record is present whose expiry
\* is set and strictly less than the current time, and every record with no
\* expiry or an expiry in the future is present, under its (domain, path,
\* name), with its original value.
C4_ExpiredDroppedOthersKept ==
    pc = "parsed" =>
        \A i \in 1..Len(cookies) :
            LET c == cookies[i] IN
            /\ (c.expiry # NoExpiry /\ c.expiry[1] < now) => ~InStore(cookie_jar, c)
            /\ (c.expiry = NoExpiry \/ c.expiry[1] > now) => InStoreWithValue(cookie_jar, c)

(***************************************************************************)
(* SpecLogin: bandcamp_login, run after run over the same .cookies file    *)
(***************************************************************************)
D1 == "bandcamp.com"
D2 == ".bandcamp.com"

\* What driver.get_cookies() may return after a login.
BrowserCookies ==
    { <<Ck("client_id", "v", D1, NoExpiry), Ck("identity", "v", D1, <<1>>)>>,
      <<Ck("client_id", "v", D1, <<3>>)>>,
      <<Ck("client_id", "", D1, NoExpiry), Ck("identity", "w", D1, NoExpiry)>>,
      <<Ck("client_id", "v", D1, <<0>>), Ck("identity", "v", D1, <<0>>)>>,
      <<Ck("client_id", "v", D1, <<3>>), Ck("identity", "v", D1, <<3>>),
        Ck("identity", "w", D2, <<3>>)>> }

InitLogin ==
    /\ pc = "login" /\ run = 1 /\ now = 1
    /\ LoginIdle /\ CollIdle /\ FetchIdle /\ PageIdle /\ MainIdle

\* The cache test as a plausible slip would have it: only client_id is asked for.
mutant_cache_usable(jar) == jar_get(jar, "client_id") # None

\* cookie_jar.get('client_id') and cookie_jar.get('identity')
cache_usable(jar) ==
    jar_get(jar, "client_id") # None /\ jar_get(jar, "identity") # None

\* The same test raises: the first get, or the second when it is evaluated.
cache_conflict(jar) ==
    \/ jar_conflict(jar, "client_id")
    \/ jar_get(jar, "client_id") # None /\ jar_conflict(jar, "identity")

\* Lines 173-177: the cache file is read when it exists and the jar built from
\* it is returned when it holds both cookies.
bandcamp_login_cache ==
    /\ pc = "login"
    /\ \/ /\ cookiefile = NoFile
          /\ pc' = "firefox"
          /\ UNCHANGED <<now, cookie_jar, exc, reused>>
       \/ /\ cookiefile # NoFile
          /\ \E t \in Times :
                /\ t >= now
                /\ now' = t
                /\ cookie_jar' = parse_cookie_list(cookiefile, t)
          /\ \/ /\ cache_conflict(cookie_jar')
                /\ exc' = "CookieConflictError"
                /\ pc' = "failed"
                /\ UNCHANGED reused
             \/ /\ ~cache_conflict(cookie_jar')
                /\ cache_usable(cookie_jar')
                /\ reused' = TRUE
                /\ pc' = "logged_in"
                /\ UNCHANGED exc
             \/ /\ ~cache_conflict(cookie_jar')
                /\ ~cache_usable(cookie_jar')
                /\ pc' = "firefox"
                /\ UNCHANGED <<exc, reused>>
    /\ UNCHANGED <<pageVars, mainVars, run, cookiefile, cookies, driver, starts, quits, collVars, fetchVars>>

\* Lines 179-181: driver = webdriver.Firefox(); cookies = [].  When the browser
\* cannot be started the error propagates and there is nothing to release.
bandcamp_login_firefox ==
    /\ pc = "firefox"
    /\ \/ /\ driver' = "open"
          /\ starts' = starts + 1
          /\ cookies' = << >>
          /\ pc' = "driver_get"
          /\ UNCHANGED exc
       \/ /\ exc' = "WebDriverException"
          /\ pc' = "failed"
          /\ UNCHANGED <<driver, starts, cookies>>
    /\ UNCHANGED <<pageVars, mainVars, run, now, cookiefile, cookie_jar, quits, reused, collVars, fetchVars>>

\* A step of the try block: it goes on to the next step, or it raises e and
\* control passes to the finally clause.
TryStep(at, next, e) ==
    /\ pc = at
    /\ \/ /\ pc' = next
          /\ UNCHANGED exc
       \/ /\ exc' = e
          /\ pc' = "finally"
    /\ UNCHANGED <<pageVars, mainVars, run, now, cookiefile, cookie_jar, cookies, driver, starts, quits,
                   reused, collVars, fetchVars>>

\* Line 184: driver.get('https://bandcamp.com/login')
bandcamp_login_get == TryStep("driver_get", "wait_username", "WebDriverException")

\* Lines 155-156 with line 186: the 30-second wait for username-field.
wait_for_id_username == TryStep("wait_username", "form", "TimeoutException")

\* Lines 188-195: the two fields are filled in and the form is submitted.
bandcamp_login_form == TryStep("form", "wait_usernav", "NoSuchElementException")

\* Lines 155-156 with line 197: the 30-second wait for user-nav.
wait_for_id_usernav == TryStep("wait_usernav", "get_cookies", "TimeoutException")

\* Line 199 as a plausible slip would have it: the cache is written as soon as
\* the cookies are read, inside the try block.
mutant_bandcamp_login_get_cookies ==
    /\ pc = "get_cookies"
    /\ \/ /\ cookies' \in BrowserCookies
          /\ cookiefile' = cookies'
          /\ pc' = "finally"
          /\ UNCHANGED exc
       \/ /\ exc' = "WebDriverException"
          /\ cookiefile' = << >>
          /\ pc' = "finally"
          /\ UNCHANGED cookies
    /\ UNCHANGED <<pageVars, mainVars, run, now, cookie_jar, driver, starts, quits, reused,
                   collVars, fetchVars>>

\* Line 199: cookies = driver.get_cookies()
bandcamp_login_get_cookies ==
    /\ pc = "get_cookies"
    /\ \/ /\ cookies' \in BrowserCookies
          /\ pc' = "finally"
          /\ UNCHANGED exc
       \/ /\ exc' = "WebDriverException"
          /\ pc' = "finally"
          /\ UNCHANGED cookies
    /\ UNCHANGED <<pageVars, mainVars, run, now, cookiefile, cookie_jar, driver, starts, quits, reused,
                   collVars, fetchVars>>

\* The finally clause as a plausible slip would have it: the browser is quit
\* at the end of the try block only, so not when a step has raised.
mutant_bandcamp_login_finally ==
    /\ pc = "finally"
    /\ \/ /\ exc = None
          /\ driver' = "quit"
          /\ quits' = quits + 1
          /\ pc' = "parse_cookies"
       \/ /\ exc # None
          /\ pc' = "failed"
          /\ UNCHANGED <<driver, quits>>
    /\ UNCHANGED <<pageVars, mainVars, run, now, cookiefile, cookie_jar, cookies, starts, exc, reused,
                   collVars, fetchVars>>

\* Lines 200-201: driver.quit(), then the pending exception propagates.
bandcamp_login_finally ==
    /\ pc = "finally"
    /\ driver' = "quit"
    /\ quits' = quits + 1
    /\ \/ /\ exc = None
          /\ pc' = "parse_cookies"
       \/ /\ exc # None
          /\ pc' = "failed"
    /\ UNCHANGED <<pageVars, mainVars, run, now, cookiefile, cookie_jar, cookies, starts, exc, reused,
                   collVars, fetchVars>>

\* Lines 203-208: the jar is built from the browser's cookies, the raw list
\* overwrites .cookies, and the jar is returned.
bandcamp_login_store ==
    /\ pc = "parse_cookies"
    /\ \E t \in Times :
          /\ t >= now
          /\ now' = t
          /\ cookie_jar' = parse_cookie_list(cookies, t)
    /\ cookiefile' = cookies
    /\ pc' = "logged_in"
    /\ UNCHANGED <<pageVars, mainVars, run, cookies, driver, starts, quits, exc, reused, collVars, fetchVars>>

\* The program is started again; only the files are as the last run left them.
RestartLogin ==
    /\ pc \in {"logged_in", "failed"}
    /\ run < MaxRuns
    /\ run' = run + 1
    /\ pc' = "login"
    /\ cookie_jar' = EmptyJar /\ cookies' = << >> /\ driver' = "none"
    /\ starts' = 0 /\ quits' = 0 /\ exc' = None /\ reused' = FALSE
    /\ UNCHANGED <<pageVars, mainVars, now, cookiefile, collVars, fetchVars>>

NextLogin ==
    \/ bandcamp_login_cache
    \/ bandcamp_login_firefox
    \/ bandcamp_login_get
    \/ wait_for_id_username
    \/ bandcamp_login_form
    \/ wait_for_id_usernav
    \/ bandcamp_login_get_cookies
    \/ bandcamp_login_finally
    \/ bandcamp_login_store
    \/ RestartLogin

SpecLogin == InitLogin /\ [][NextLogin]_vars

\* The store holds a cookie of that name.
StoreContains(jar, n) == \E k \in DOMAIN jar : k[3] = n

\* The store holds a cookie of that name whose value is not empty.
StoreHolds(jar, n) == \E k \in DOMAIN jar : k[3] = n /\ jar[k].value # ""

\* The store holds two cookies of that name.
StoreTwice(jar, n) ==
    \E k1, k2 \in DOMAIN jar : k1 # k2 /\ k1[3] = n /\ k2[3] = n

\* Between the cache test and the return, on the way through the browser.
BrowserPath ==
    {"firefox", "driver_get", "wait_username", "form", "wait_usernav",
     "get_cookies", "finally", "parse_cookies"}

\* The jar built from the cache file as it is now, at the time last read.
CacheJar == IF cookiefile = NoFile THEN EmptyJar ELSE parse_cookie_list(cookiefile, now)

C6_BrowserReleasedOnce ==
    /\ starts <= 1 /\ quits <= starts
    /\ driver = "open" <=> (starts = 1 /\ quits = 0)
    /\ driver = "open" => pc \in (BrowserPath \ {"firefox", "parse_cookies"})
    /\ pc \in {"logged_in", "failed", "parse_cookies"} => quits = starts
    /\ starts = 1 /\ quits = 1 => driver = "quit"
    /\ exc = "TimeoutException" => (starts = 1 /\ pc \in {"finally", "failed"})

\* A wait timed out, the browser was quit and the error has propagated.
C6_Witness ==
    pc = "failed" /\ exc = "TimeoutException" /\ quits = 1 /\ driver = "quit"

\* C19: the cache file changes only in the step that follows a try block
\* without an exception and the release of the browser, and then to the cookie
\* list the browser gave; so a login that fails at any step leaves the file
\* with the content it had, or absent.
C19_FailedLoginKeepsCache ==
    /\ [][cookiefile' # cookiefile =>
            /\ pc = "parse_cookies" /\ pc' = "logged_in"
            /\ exc = None /\ starts = 1 /\ quits = 1 /\ driver = "quit"
            /\ cookies \in BrowserCookies
            /\ cookiefile' = cookies]_vars
    /\ [][pc' = "failed" => (cookiefile' = cookiefile /\ exc' # None)]_vars
    /\ []((exc # None /\ run = 1) => cookiefile = NoFile)
    /\ [](exc # None => pc \in {"finally", "failed"})

\* The second run found the cache of the first without an identity cookie,
\* started the browser and timed out: the cache is as the first run wrote it.
C19_Witness ==
    /\ run = 2 /\ pc = "failed" /\ exc = "TimeoutException"
    /\ starts = 1 /\ quits = 1
    /\ cookiefile # NoFile
    /\ cookiefile = <<Ck("client_id", "v", D1, <<3>>)>>

(***************************************************************************)
(* SpecMain: __main__ from its start to the return of bandcamp_login, run  *)
(* after run over the same .cookies file                                   *)
(***************************************************************************)
MaxArgv == 4      \* largest len(sys.argv) the program is started with

\* len(sys.argv): the program name and the positional arguments.
ArgvLens == 1..MaxArgv

\* Lines 212-213: the two lines of the usage text.
Usage ==
    <<"Usage: bandcamp.py <username> <password> [music directory]",
      "  -music directory defaults to './Music'">>

\* The test as a plausible slip would have it: one argument is enough.
mutant_too_few_arguments(n) == n < 2

\* len(sys.argv) < 3
too_few_arguments(n) == n < 3

InitMain ==
    /\ pc = "main" /\ run = 1 /\ now = 1
    /\ argv \in ArgvLens /\ out = << >>
    /\ LoginIdle /\ CollIdle /\ FetchIdle /\ PageIdle

\* Lines 211-225: with too few arguments the usage text is printed and quit()
\* ends the program; otherwise the arguments are read, the session is made
\* and bandcamp_login is called.
main_args ==
    /\ pc = "main"
    /\ \/ /\ too_few_arguments(argv)
          /\ out' = out \o Usage
          /\ pc' = "quit"
       \/ /\ ~too_few_arguments(argv)
          /\ pc' = "login"
          /\ UNCHANGED out
    /\ UNCHANGED <<pageVars, argv, run, now, loginVars, collVars, fetchVars>>

\* The program is started again, with any arguments; only the files are as
\* the last run left them.
RestartMain ==
    /\ pc \in {"quit", "logged_in", "failed"}
    /\ run < MaxRuns
    /\ run' = run + 1
    /\ pc' = "main"
    /\ argv' \in ArgvLens /\ out' = << >>
    /\ cookie_jar' = EmptyJar /\ cookies' = << >> /\ driver' = "none"
    /\ starts' = 0 /\ quits' = 0 /\ exc' = None /\ reused' = FALSE
    /\ UNCHANGED <<pageVars, now, cookiefile, collVars, fetchVars>>

NextMain ==
    \/ main_args
    \/ bandcamp_login_cache
    \/ bandcamp_login_firefox
    \/ bandcamp_login_get
    \/ wait_for_id_username
    \/ bandcamp_login_form
    \/ wait_for_id_usernav
    \/ bandcamp_login_get_cookies
    \/ bandcamp_login_finally
    \/ bandcamp_login_store
    \/ RestartMain

SpecMain == InitMain /\ [][NextMain]_vars

\* C13: started with fewer than 2 positional arguments, the program prints
\* the usage text and stops: the browser is not started, the cache file is
\* neither read into a store nor written, no request is sent and no file or
\* directory is made.
C13_TooFewArgumentsOnlyUsage ==
    /\ [](argv < 3 =>
            /\ pc \in {"main", "quit"}
            /\ cookie_jar = EmptyJar /\ cookies = << >> /\ driver = "none"
            /\ starts = 0 /\ quits = 0 /\ exc = None /\ ~reused
            /\ posts = << >> /\ net = 0 /\ dirs = {} /\ files = EmptyFiles
            /\ pc = "main" => out = << >>
            /\ pc = "quit" => out = Usage)
    /\ [](argv >= 3 => (pc # "quit" /\ out = << >>))
    /\ [][(argv < 3 /\ pc = "main") =>
            (pc' = "quit" /\ UNCHANGED <<loginVars, collVars, fetchVars, pageVars>>)]_vars
    /\ [][pc = "quit" => (pc' = "main" /\ cookiefile' = cookiefile)]_vars

\* The program was started with one argument over a cache an earlier run
\* wrote, printed the usage text and stopped.
C13_Witness ==
    /\ pc = "quit" /\ argv = 2 /\ out = Usage
    /\ run = 2 /\ cookiefile # NoFile

(***************************************************************************)
(* Dicts, albums and the download-url join                                 *)
(***************************************************************************)
EmptyDict == [k \in {} |-> None]

\* d.get(k, default)
dict_get(d, k, default) == IF k \in DOMAIN d THEN d[k] ELSE default

\* d[k] = v
dict_set(d, k, v) == [f \in DOMAIN d \cup {k} |-> IF f = k THEN v ELSE d[f]]

\* A purchase record as the storefront sends it (no download_url yet).
Item(band, title, id, type, sid, tok) ==
    [band_name |-> band, item_title |-> title, item_id |-> id,
     sale_item_type |-> type, sale_item_id |-> sid, token |-> tok]

I1 == Item("B", "T", 1, "a", 1, "t1")
I2 == Item("B", "T", 2, "t", 2, "t2")
I3 == Item("B", "U", 3, "a", 3, "t3")

\* redownload_urls mappings the storefront may send.
RedownloadUrls ==
    { EmptyDict,
      [a1 |-> "https://d/a1", t2 |-> "https://d/t2", a3 |-> "https://d/a3"],
      [t1 |-> "https://d/t1", t2 |-> "https://d/t2"] }

\* The key as a plausible slip would build it: the sale_item_type left out.
mutant_url_key(album) == ToString(album.sale_item_id)

\* album['sale_item_type'] + str(album['sale_item_id'])
url_key(album) == album.sale_item_type \o ToString(album.sale_item_id)

\* map_download_urls: every album gets download_urls.get(url_key).
map_download_urls(download_urls, as) ==
    [i \in 1..Len(as) |->
        dict_set(as[i], "download_url", dict_get(download_urls, url_key(as[i]), None))]

(***************************************************************************)
(* SpecCollection: ParseUserInfo on the profile page, then get_collection  *)
(***************************************************************************)
Count == 100

\* The pagedata blob of the profile page: complete, or with keys missing.
Blobs ==
    { EmptyDict,
      [fan_data |-> [fan_id |-> 42]],
      [fan_data |-> [fan_id |-> 42],
       collection_data |-> [last_token |-> "t0"],
       item_cache |-> [collection |-> <<I1>>]],
      [fan_data |-> [fan_id |-> 42],
       collection_data |-> [last_token |-> "t0",
                            redownload_urls |-> [a1 |-> "https://d/a1"]],
       item_cache |-> [collection |-> <<I1, I2>>]] }

\* What a collection-items response may hold.  Every response carries
\* redownload_urls, as the endpoint's contract has it (line 148 indexes it);
\* items may be missing (line 147 defaults it).
PageItems == { << >>, <<I1>>, <<I2, I3>> }

Responses ==
    {[items |-> p, redownload_urls |-> m] : p \in PageItems, m \in RedownloadUrls}
    \cup {[redownload_urls |-> m] : m \in RedownloadUrls}

\* ParseUserInfo.fan_id, .last_token and .albums on the blob d.
ParseUserInfo_fan_id(d) == dict_get(dict_get(d, "fan_data", EmptyDict), "fan_id", 0)

ParseUserInfo_last_token(d) ==
    dict_get(dict_get(d, "collection_data", EmptyDict), "last_token", "")

ParseUserInfo_collection(d) ==
    dict_get(dict_get(d, "item_cache", EmptyDict), "collection", << >>)

ParseUserInfo_download_urls(d) ==
    dict_get(dict_get(d, "collection_data", EmptyDict), "redownload_urls", EmptyDict)

ParseUserInfo_albums(d) ==
    map_download_urls(ParseUserInfo_download_urls(d), ParseUserInfo_collection(d))

InitCollection ==
    /\ pc = "get_albums" /\ run = 1 /\ now = 1
    /\ LoginIdle /\ CollIdle /\ FetchIdle /\ PageIdle /\ MainIdle

\* Lines 49-52 with 25-32: the profile page is fetched and fed to the parser.
\* Without a pagedata div the blob stays None and data is {}; the request may
\* fail, and then the error ends the run.
get_albums ==
    /\ pc = "get_albums"
    /\ \/ /\ data' \in Blobs
          /\ pc' = "main_collection"
       \/ /\ pc' = "failed"
          /\ UNCHANGED data
    /\ UNCHANGED <<pageVars, mainVars, run, now, loginVars, fan_id, albums, gc_token, resp, posts, seed,
                   pages, joined, fetchVars>>

\* Line 230, the arguments: parser.fan_id, parser.last_token, parser.albums.
main_collection ==
    /\ pc = "main_collection"
    /\ fan_id' = ParseUserInfo_fan_id(data)
    /\ gc_token' = ParseUserInfo_last_token(data)
    /\ albums' = ParseUserInfo_albums(data)
    /\ seed' = albums'
    /\ joined' = [site |-> "albums", urls |-> ParseUserInfo_download_urls(data),
                  given |-> ParseUserInfo_collection(data), result |-> albums']
    /\ pc' = "gc_post"
    /\ UNCHANGED <<pageVars, mainVars, run, now, loginVars, data, resp, posts, pages, fetchVars>>

\* Lines 137-141: the collection-items request of this call and its response.
get_collection_post ==
    /\ pc = "gc_post"
    /\ Len(posts) < MaxPosts
    /\ posts' = Append(posts, [fan_id |-> fan_id, older_than_token |-> gc_token,
                               count |-> Count])
    /\ \/ /\ resp' \in Responses
          /\ pages' = Append(pages, resp')
          /\ pc' = "gc_handle"
       \/ /\ pc' = "failed"
          /\ UNCHANGED <<resp, pages>>
    /\ UNCHANGED <<pageVars, mainVars, run, now, loginVars, data, fan_id, albums, gc_token, seed, joined,
                   fetchVars>>

\* The accumulation as a plausible slip would have it: the page goes in front.
mutant_accumulate(as, items) == items \o as

\* albums + items
accumulate(as, items) == as \o items

\* The base case as a plausible slip would have it: the accumulator is tested.
mutant_exhausted(as, items) == as = << >>

\* not items
exhausted(as, items) == items = << >>

\* The cursor as a plausible slip would take it: from the first item of the page.
mutant_next_token(items) == items[1].token

\* items[-1]['token']
next_token(items) == items[Len(items)].token

\* Lines 143-153: the page is joined with its redownload_urls; an empty page
\* returns the accumulator, any other is appended and the next call is made
\* with the token of its last item.
get_collection_handle ==
    /\ pc = "gc_handle"
    /\ LET items == map_download_urls(resp.redownload_urls, dict_get(resp, "items", << >>))
       IN  /\ joined' = [site |-> "get_collection", urls |-> resp.redownload_urls,
                         given |-> dict_get(resp, "items", << >>), result |-> items]
           /\ \/ /\ exhausted(albums, items)
                 /\ pc' = "gc_return"
                 /\ UNCHANGED <<albums, gc_token>>
              \/ /\ ~exhausted(albums, items)
                 /\ Len(items) > 0
                 /\ gc_token' = next_token(items)
                 /\ albums' = accumulate(albums, items)
                 /\ pc' = "gc_post"
    /\ resp' = NoResp
    /\ UNCHANGED <<pageVars, mainVars, run, now, loginVars, data, fan_id, posts, seed, pages, fetchVars>>

NextCollection ==
    \/ get_albums
    \/ main_collection
    \/ get_collection_post
    \/ get_collection_handle

SpecCollection == InitCollection /\ [][NextCollection]_vars

\* The program keeps running: a step that can be taken is taken.
LiveCollection == SpecCollection /\ WF_vars(NextCollection)

\* The items of a response as sent.
ItemsOf(r) == dict_get(r, "items", << >>)

RECURSIVE Flatten(_)
Flatten(ps) ==
    IF ps = << >> THEN << >>
    ELSE ItemsOf(Head(ps)) \o Flatten(Tail(ps))

\* An album without the field the join adds.
Raw(a) == [f \in DOMAIN a \ {"download_url"} |-> a[f]]

\* C2: when the walk returns, the result is the seed list unchanged, followed
\* by the items of the pages received, page after page and in the order
\* within each page, nothing added, dropped, moved or merged.
C2_SeedThenPagesInOrder ==
    pc = "gc_return" =>
        LET flat == Flatten(pages) IN
        /\ Len(albums) = Len(seed) + Len(flat)
        /\ SubSeq(albums, 1, Len(seed)) = seed
        /\ \A i \in 1..Len(flat) : Raw(albums[Len(seed) + i]) = flat[i]

\* Two seed albums, a page of two, a page that repeats a seed album, the end.
C2_Witness ==
    /\ pc = "gc_return"
    /\ Len(seed) = 2 /\ Len(pages) = 3
    /\ ItemsOf(pages[1]) = <<I2, I3>> /\ ItemsOf(pages[2]) = <<I1>>
    /\ Len(albums) = 5

\* C3: a response without items makes the call return the accumulator as it is
\* and send nothing more, so an empty page is only ever the last one received;
\* and once such a response has arrived the walk does return.
C3_StopsAtFirstEmptyPage ==
    /\ [][(pc = "gc_handle" /\ ItemsOf(resp) = << >>) =>
            (pc' = "gc_return" /\ albums' = albums /\ posts' = posts)]_vars
    /\ [](\A i \in 1..Len(pages) :
            ItemsOf(pages[i]) = << >> =>
                (i = Len(pages) /\ pc \in {"gc_handle", "gc_return"}))
    /\ [](pc = "gc_return" =>
            (Len(posts) = Len(pages) /\ ItemsOf(pages[Len(pages)]) = << >>))
    /\ (pc = "gc_handle" /\ ItemsOf(resp) = << >>) ~> (pc = "gc_return")

\* The walk has returned after two pages of items and an empty one.
C3_Witness ==
    /\ pc = "gc_return" /\ Len(pages) = 3 /\ Len(posts) = 3
    /\ ItemsOf(pages[3]) = << >> /\ albums # << >>

\* The key of an album in redownload_urls.
KeyOf(a) == a.sale_item_type \o ToString(a.sale_item_id)

\* C10: after every join, at the profile page and at every collection-items
\* page, each album is the album given with download_url set to what
\* redownload_urls holds under sale_item_type + sale_item_id, and to None
\* when the key is absent; the join itself ends no run.
C10_JoinByKeyOrNone ==
    joined.site # "none" =>
        /\ Len(joined.result) = Len(joined.given)
        /\ \A i \in 1..Len(joined.given) :
              LET k == KeyOf(joined.given[i]) IN
              /\ Raw(joined.result[i]) = joined.given[i]
              /\ k \in DOMAIN joined.urls => joined.result[i].download_url = joined.urls[k]
              /\ k \notin DOMAIN joined.urls => joined.result[i].download_url = None
        /\ pc = "failed" => Len(posts) > Len(pages)

\* A collection-items page where one album has a url and the other has none.
C10_Witness ==
    /\ joined.site = "get_collection"
    /\ Len(joined.result) = 2
    /\ joined.result[1].download_url # None
    /\ joined.result[2].download_url = None

\* C14: the first collection-items request carries the last_token of the
\* profile page, every later one the token of the last item of the page
\* received just before it, and every request carries the fan_id of the
\* profile page and count 100.
C14_CursorAdvance ==
    /\ \A i \in 1..Len(posts) :
          /\ posts[i].fan_id = ParseUserInfo_fan_id(data)
          /\ posts[i].count = 100
    /\ Len(posts) >= 1 => posts[1].older_than_token = ParseUserInfo_last_token(data)
    /\ \A i \in 2..Len(posts) :
          /\ i - 1 <= Len(pages)
          /\ ItemsOf(pages[i - 1]) # << >>
          /\ posts[i].older_than_token =
                ItemsOf(pages[i - 1])[Len(ItemsOf(pages[i - 1]))].token

\* Three requests: the cursor of the profile page, then the last token of a
\* page of two items, then the token of a page of one.
C14_Witness ==
    /\ Len(posts) = 3 /\ Len(pages) >= 2
    /\ ItemsOf(pages[1]) = <<I2, I3>> /\ ItemsOf(pages[2]) = <<I1>>
    /\ posts[1].older_than_token = "t0"
    /\ posts[2].older_than_token = "t3"
    /\ posts[3].older_than_token = "t1"
    /\ posts[3].fan_id = 42

(***************************************************************************)
(* SpecBlob: BandcampBlobParser fed a document, then the accessors of      *)
(* ParseUserInfo on what it found                                          *)
(***************************************************************************)
MaxTags == 2      \* most start tags in a document given to feed()

\* attrs.get(name) when the start tag has no such attribute.
NoAttr == "NoAttr"

\* A start tag as HTMLParser hands it to handle_starttag: the tag name, the
\* value of its id attribute and the value of its data-blob attribute.
StartTag(tag, id, blob) == [tag |-> tag, id |-> id, blob |-> blob]

\* The texts a data-blob attribute may hold.
JsonEmpty == "{}"
JsonNull == "null"
JsonFan == "{\"fan_data\":{\"fan_id\":42}}"
JsonItem1 == "{\"band_name\":\"B\",\"item_title\":\"T\",\"item_id\":1,\"sale_item_type\":\"a\",\"sale_item_id\":1,\"token\":\"t1\"}"
JsonFull == "{\"fan_data\":{\"fan_id\":42},\"collection_data\":{\"last_token\":\"t0\"},\"item_cache\":{\"collection\":{\"a1\":" \o JsonItem1 \o "}}}"
JsonBroken == "{\"fan_data\":"

StartTags ==
    { StartTag("div", "pagedata", JsonFull),
      StartTag("div", "pagedata", JsonFan),
      StartTag("div", "pagedata", JsonEmpty),
      StartTag("div", "pagedata", JsonNull),
      StartTag("div", "pagedata", JsonBroken),
      StartTag("div", "pagedata", NoAttr),
      StartTag("div", "other", JsonFan),
      StartTag("div", NoAttr, NoAttr),
      StartTag("span", "pagedata", JsonFan) }

Documents == UNION {[1..n -> StartTags] : n \in 0..MaxTags}

\* json.loads(text): the value decoded, or the error raised.  None is not a
\* text (TypeError); a text that is cut short does not decode.
json_loads(text) ==
    CASE text = NoAttr -> [error |-> "TypeError", value |-> EmptyDict]
      [] text = JsonEmpty -> [error |-> None, value |-> EmptyDict]
      [] text = JsonNull -> [error |-> None, value |-> EmptyDict]
      [] text = JsonFan -> [error |-> None, value |-> [fan_data |-> [fan_id |-> 42]]]
      [] text = JsonFull ->
            [error |-> None,
             value |-> [fan_data |-> [fan_id |-> 42],
                        collection_data |-> [last_token |-> "t0"],
                        item_cache |-> [collection |-> <<I1>>]]]
      [] OTHER -> [error |-> "JSONDecodeError", value |-> EmptyDict]

\* Lines 29-30: the test that lets a start tag through to json.loads.
is_pagedata(t) == ~(t.tag # "div" \/ t.id # "pagedata")

InitBlob ==
    /\ pc = "feed" /\ run = 1 /\ now = 1
    /\ html \in Documents /\ pos = 0
    /\ LoginIdle /\ CollIdle /\ FetchIdle /\ MainIdle

\* Lines 25-32: one start tag of the document.  A div with id pagedata has its
\* data-blob decoded and kept as the blob, which data shows as {} when it is
\* None or empty; an error of json.loads ends feed() and the run.
handle_starttag ==
    /\ pc = "feed"
    /\ pos < Len(html)
    /\ pos' = pos + 1
    /\ LET t == html[pos + 1]
           loaded == json_loads(t.blob)
       IN  \/ /\ ~is_pagedata(t)
              /\ UNCHANGED <<pc, data, exc>>
           \/ /\ is_pagedata(t)
              /\ loaded.error = None
              /\ data' = loaded.value
              /\ UNCHANGED <<pc, exc>>
           \/ /\ is_pagedata(t)
              /\ loaded.error # None
              /\ exc' = loaded.error
              /\ pc' = "failed"
              /\ UNCHANGED data
    /\ UNCHANGED <<mainVars, run, now, cookiefile, cookie_jar, cookies, driver, starts,
                   quits, reused, fan_id, albums, gc_token, resp, posts, seed, pages,
                   joined, fetchVars, html>>

\* Lines 51-52: feed() has gone through the document and get_albums returns.
feed_return ==
    /\ pc = "feed"
    /\ pos = Len(html)
    /\ pc' = "main_collection"
    /\ UNCHANGED <<pageVars, mainVars, run, now, loginVars, collVars, fetchVars>>

NextBlob ==
    \/ handle_starttag
    \/ feed_return
    \/ main_collection

SpecBlob == InitBlob /\ [][NextBlob]_vars

\* The document has a div with id pagedata that carries a data-blob attribute.
HasBlobDiv(doc) ==
    \E i \in 1..Len(doc) :
        doc[i].tag = "div" /\ doc[i].id = "pagedata" /\ doc[i].blob # NoAttr

\* C11: for a document with no div that has both id pagedata and a data-blob
\* attribute, feed() raises nothing, the payload is {} and the accessors
\* give fan_id 0, last_token "" and no items.
C11_NoBlobGivesEmptyDefaults ==
    ~HasBlobDiv(html) =>
        /\ pc # "failed"
        /\ data = EmptyDict
        /\ pc = "gc_post" => (fan_id = 0 /\ gc_token = "" /\ albums = << >>)

(***************************************************************************)
(* SpecFetch: the per-album loop of __main__ (DownloadAlbum), run after    *)
(* run over the same music directory                                       *)
(***************************************************************************)
base_dir == "Music"

\* The albums get_collection may have returned: two of one band and title,
\* and one whose key was not in redownload_urls.
A1 == dict_set(I1, "download_url", "https://d/a1")
A2 == dict_set(I2, "download_url", "https://d/t2")
A3 == dict_set(I3, "download_url", None)

AlbumLists == UNION {[1..n -> {A1, A2, A3}] : n \in 0..MaxAlbums}

\* One entry of digital_items, with the formats it offers.
Digital(formats) == [downloads |-> formats]
Mp3(u) == ("mp3-v0" :> [url |-> u])

\* The pagedata blob of a download page; NoData when the page has none.
DownloadPages ==
    { NoData,
      [digital_items |-> << >>],
      [digital_items |-> <<Digital(Mp3("https://f/x"))>>],
      [digital_items |-> <<Digital(Mp3("https://f/x")), Digital(Mp3("https://f/y"))>>],
      [digital_items |-> <<Digital(EmptyDict)>>] }

\* The bytes the storefront serves for an album: an archive, or the raw audio.
Bodies(album) ==
    {[kind |-> k, of |-> album.item_id, name |-> ""] : k \in {"zip", "raw"}}

\* The names of the entries of an archive.
ZipNames == {"cover.jpg", "01.mp3"}

\* os.path.join
join(a, b) == a \o "/" \o b

\* DownloadAlbum.download_dir, .download_path and .lock_path
download_dir(album) == join(join(base_dir, album.band_name), album.item_title)

download_path(album) == join(download_dir(album), ToString(album.item_id) \o ".zip")

lock_path(album) == join(download_dir(album), "." \o ToString(album.item_id) \o ".lock")

\* The fallback name as a plausible slip would build it: from the item id.
mutant_mp3_path(album) == join(download_dir(album), ToString(album.item_id) \o ".mp3")

\* os.path.join(self.download_dir, self.album['item_title'] + ".mp3")
mp3_path(album) == join(download_dir(album), album.item_title \o ".mp3")

\* os.makedirs(download_dir) when it does not exist: the directory and those above it.
makedirs(ds, album) ==
    ds \cup {base_dir, join(base_dir, album.band_name), download_dir(album)}

\* open(path, 'w') / open(path, 'wb'): the file exists and is empty.
create(fs, path) == [p \in DOMAIN fs \cup {path} |-> IF p = path THEN Empty ELSE fs[p]]

\* The file at path holds content.
write(fs, path, content) ==
    [p \in DOMAIN fs \cup {path} |-> IF p = path THEN content ELSE fs[p]]

\* os.rename(src, dst): dst is replaced when it exists.
rename(fs, src, dst) ==
    [p \in (DOMAIN fs \ {src}) \cup {dst} |-> IF p = dst THEN fs[src] ELSE fs[p]]

\* zipped.extractall(dir): every entry is written under dir.
extractall(fs, dir, archive) ==
    LET paths == {join(dir, n) : n \in ZipNames}
    IN  [p \in DOMAIN fs \cup paths |->
            IF p \in paths
            THEN [kind |-> "entry", of |-> archive.of,
                  name |-> CHOOSE n \in ZipNames : join(dir, n) = p]
            ELSE fs[p]]

\* The loop as a plausible slip would have it: it stops at the first entry.
mutant_parse_album_url(items, i, url) ==
    IF i > Len(items) THEN url
    ELSE IF "mp3-v0" \notin DOMAIN items[i].downloads THEN "KeyError"
    ELSE items[i].downloads["mp3-v0"].url

\* The loop of parse_album over digital_items: the url of the last entry, None
\* when there is none; "KeyError" when an entry has no mp3-v0 format.
RECURSIVE parse_album_url(_, _, _)
parse_album_url(items, i, url) ==
    IF i > Len(items) THEN url
    ELSE IF "mp3-v0" \notin DOMAIN items[i].downloads THEN "KeyError"
    ELSE parse_album_url(items, i + 1, items[i].downloads["mp3-v0"].url)

\* The order of fetch_album as a plausible slip would have it: lock first.
mutant_fetch_album_next(step) ==
    CASE step = "check" -> "lock"
      [] step = "lock" -> "download_open"
      [] step = "download" -> "extract"
      [] step = "extract" -> "loop"

\* Lines 119-123: download, then extract, then lock, then back to the loop.
fetch_album_next(step) ==
    CASE step = "check" -> "download_open"
      [] step = "download" -> "extract"
      [] step = "extract" -> "lock"
      [] step = "lock" -> "loop"

\* The album a lock marker, an archive and a directory belong to.
album_key(album) == <<album.band_name, album.item_title, album.item_id>>

InitFetch ==
    /\ pc = "loop" /\ run = 1 /\ now = 1
    /\ LoginIdle
    /\ data = NoData /\ fan_id = 0 /\ albums \in AlbumLists /\ gc_token = ""
    /\ resp = NoResp /\ posts = << >> /\ seed = << >> /\ pages = << >>
    /\ joined = NoJoin
    /\ FetchIdle /\ PageIdle /\ MainIdle

\* The error as a plausible slip would treat it: caught, and the loop goes on.
mutant_Fail == pc' = "loop" /\ ended' = pc

\* The error of this step propagates and ends the run.
Fail == pc' = "failed" /\ ended' = pc

\* Lines 231-232: the next album, with a DownloadAlbum of its own; after the
\* last one the program ends.
main_loop ==
    /\ pc = "loop"
    /\ done' = IF idx > 0 THEN Append(done, trail) ELSE done
    /\ \/ /\ idx < Len(albums)
          /\ idx' = idx + 1
          /\ data' = NoData /\ download_url' = None
          /\ net' = 0 /\ trail' = << >> /\ body' = Empty
          /\ fs0' = [dirs |-> dirs, files |-> files]
          /\ pc' = "parse_album"
       \/ /\ idx = Len(albums)
          /\ pc' = "exit"
          /\ UNCHANGED <<data, idx, download_url, net, trail, body, fs0>>
    /\ UNCHANGED <<pageVars, mainVars, run, now, loginVars, fan_id, albums, gc_token, resp, posts, seed,
                   pages, joined, dirs, files, ended, fetched>>

\* Lines 65-72 (resolve_url): the download page is fetched and fed to the
\* parser, and the url of the last digital item is kept.  No request can be
\* made for a download_url of None; the request may fail; a page without
\* digital_items, or an entry without mp3-v0, is a KeyError.
parse_album ==
    /\ pc = "parse_album"
    /\ \/ /\ albums[idx].download_url = None
          /\ Fail
          /\ UNCHANGED <<data, download_url, net, trail>>
       \/ /\ albums[idx].download_url # None
          /\ net' = net + 1
          /\ \/ /\ Fail
                /\ UNCHANGED <<data, download_url, trail>>
             \/ /\ data' \in DownloadPages
                /\ \/ /\ "digital_items" \notin DOMAIN data'
                      /\ Fail
                      /\ UNCHANGED <<download_url, trail>>
                   \/ /\ "digital_items" \in DOMAIN data'
                      /\ parse_album_url(data'.digital_items, 1, None) = "KeyError"
                      /\ Fail
                      /\ UNCHANGED <<download_url, trail>>
                   \/ /\ "digital_items" \in DOMAIN data'
                      /\ parse_album_url(data'.digital_items, 1, None) # "KeyError"
                      /\ download_url' = parse_album_url(data'.digital_items, 1, None)
                      /\ trail' = Append(trail, "resolve_url")
                      /\ pc' = "fetch_check"
                      /\ UNCHANGED ended
    /\ UNCHANGED <<pageVars, mainVars, run, now, loginVars, fan_id, albums, gc_token, resp, posts, seed,
                   pages, joined, idx, dirs, files, fs0, body, fetched, done>>

\* The test as a plausible slip would have it: it looks for the archive.
mutant_fetch_album_locked ==
    /\ pc = "fetch_check"
    /\ dirs' = makedirs(dirs, albums[idx])
    /\ \/ /\ download_path(albums[idx]) \in DOMAIN files
          /\ trail' = Append(trail, "skip")
          /\ pc' = "loop"
       \/ /\ download_path(albums[idx]) \notin DOMAIN files
          /\ pc' = fetch_album_next("check")
          /\ UNCHANGED trail
    /\ UNCHANGED <<pageVars, mainVars, run, now, loginVars, collVars, idx, download_url,
                   net, files, fs0, body, ended, fetched, done>>

\* Lines 112-117: self.locked makes the album's directory when it is missing
\* and looks for the lock marker; a locked album is skipped.
fetch_album_locked ==
    /\ pc = "fetch_check"
    /\ dirs' = makedirs(dirs, albums[idx])
    /\ \/ /\ lock_path(albums[idx]) \in DOMAIN files
          /\ trail' = Append(trail, "skip")
          /\ pc' = "loop"
       \/ /\ lock_path(albums[idx]) \notin DOMAIN files
          /\ pc' = fetch_album_next("check")
          /\ UNCHANGED trail
    /\ UNCHANGED <<pageVars, mainVars, run, now, loginVars, collVars, idx, download_url, net, files, fs0,
                   body, ended, fetched, done>>

\* Line 107: the archive file is opened for writing, so it exists and is empty.
download_open ==
    /\ pc = "download_open"
    /\ dirs' = makedirs(dirs, albums[idx])
    /\ files' = create(files, download_path(albums[idx]))
    /\ pc' = "download_get"
    /\ UNCHANGED <<pageVars, mainVars, run, now, loginVars, collVars, idx, download_url, net, fs0, body,
                   trail, ended, fetched, done>>

\* Lines 108-110: the request for the resolved url and the blocks of its body
\* written to the file.  No request can be made for a url of None.
download_get ==
    /\ pc = "download_get"
    /\ \/ /\ download_url = None
          /\ Fail
          /\ UNCHANGED <<net, files, body, trail>>
       \/ /\ download_url # None
          /\ net' = net + 1
          /\ \/ /\ Fail
                /\ UNCHANGED <<files, body, trail>>
             \/ /\ body' \in Bodies(albums[idx])
                /\ files' = write(files, download_path(albums[idx]), body')
                /\ trail' = Append(trail, "download")
                /\ pc' = fetch_album_next("download")
                /\ UNCHANGED ended
    /\ UNCHANGED <<pageVars, mainVars, run, now, loginVars, collVars, idx, download_url, dirs, fs0, fetched, done>>

\* Lines 99-104: the file is extracted into the album's directory when it is
\* an archive, and renamed to {item_title}.mp3 when it is not.
extract ==
    /\ pc = "extract"
    /\ LET album == albums[idx]
           zip == download_path(album)
       IN  \/ /\ zip \in DOMAIN files
              /\ files[zip].kind = "zip"
              /\ files' = extractall(files, download_dir(album), files[zip])
              /\ fetched' = fetched \cup {album_key(album)}
              /\ trail' = Append(trail, "extract")
              /\ pc' = fetch_album_next("extract")
              /\ UNCHANGED ended
           \/ /\ zip \in DOMAIN files
              /\ files[zip].kind # "zip"
              /\ files' = rename(files, zip, mp3_path(album))
              /\ fetched' = fetched \cup {album_key(album)}
              /\ trail' = Append(trail, "extract")
              /\ pc' = fetch_album_next("extract")
              /\ UNCHANGED ended
           \/ /\ zip \notin DOMAIN files
              /\ Fail
              /\ UNCHANGED <<files, fetched, trail>>
    /\ UNCHANGED <<pageVars, mainVars, run, now, loginVars, collVars, idx, download_url, net, dirs, fs0, body, done>>

\* Lines 95-97: the lock marker is created, empty.
lock ==
    /\ pc = "lock"
    /\ dirs' = makedirs(dirs, albums[idx])
    /\ files' = create(files, lock_path(albums[idx]))
    /\ trail' = Append(trail, "lock")
    /\ pc' = fetch_album_next("lock")
    /\ UNCHANGED <<pageVars, mainVars, run, now, loginVars, collVars, idx, download_url, net, fs0, body,
                   ended, fetched, done>>

Running ==
    {"loop", "parse_album", "fetch_check", "download_open", "download_get",
     "extract", "lock"}

\* The process is stopped from outside, wherever it is.
Kill ==
    /\ pc \in Running
    /\ pc' = "stopped"
    /\ ended' = pc
    /\ UNCHANGED <<pageVars, mainVars, run, now, loginVars, collVars, idx, download_url, net, dirs, files,
                   fs0, body, trail, fetched, done>>

\* The program is started again over the same music directory.
RestartFetch ==
    /\ pc \in {"exit", "failed", "stopped"}
    /\ run < MaxRuns
    /\ run' = run + 1
    /\ albums' \in AlbumLists
    /\ pc' = "loop"
    /\ data' = NoData /\ idx' = 0 /\ download_url' = None /\ net' = 0
    /\ body' = Empty /\ trail' = << >> /\ ended' = None /\ done' = << >>
    /\ fs0' = [dirs |-> {}, files |-> EmptyFiles]
    /\ UNCHANGED <<pageVars, mainVars, now, loginVars, fan_id, gc_token, resp, posts, seed, pages, joined,
                   dirs, files, fetched>>

NextFetch ==
    \/ main_loop
    \/ parse_album
    \/ fetch_album_locked
    \/ download_open
    \/ download_get
    \/ extract
    \/ lock
    \/ Kill
    \/ RestartFetch

SpecFetch == InitFetch /\ [][NextFetch]_vars

\* The paths of an album's directory, archive, lock marker and renamed file.
DirOf(a) == "Music/" \o a.band_name \o "/" \o a.item_title
ZipOf(a) == DirOf(a) \o "/" \o ToString(a.item_id) \o ".zip"
LockOf(a) == DirOf(a) \o "/." \o ToString(a.item_id) \o ".lock"
Mp3Of(a) == DirOf(a) \o "/" \o a.item_title \o ".mp3"

\* An album is being processed or was the last one processed in this run.
Current == idx \in 1..Len(albums)

\* C1: while and after an album is processed whose lock marker existed when
\* its processing began, no network call has been made for it and the
\* directories and files are as they were.
C1_LockedAlbumIsNoOp ==
    (Current /\ LockOf(albums[idx]) \in DOMAIN fs0.files) =>
        (net = 0 /\ dirs = fs0.dirs /\ files = fs0.files)

Lifecycle == <<"resolve_url", "download", "extract", "lock">>

\* C7: a lock marker exists only for an album whose download and extract have
\* completed, and the steps of an album are taken in the order resolve_url,
\* download, extract, lock (or resolve_url, skip).
C7_LockOnlyAfterDownloadAndExtract ==
    /\ \A a \in {A1, A2, A3} :
          LockOf(a) \in DOMAIN files =>
              <<a.band_name, a.item_title, a.item_id>> \in fetched
    /\ \/ \E n \in 0..4 : trail = SubSeq(Lifecycle, 1, n)
       \/ trail = <<"resolve_url", "skip">>
    /\ (Current /\ Len(trail) = 4) => LockOf(albums[idx]) \in DOMAIN files
    /\ (Current /\ Len(trail) >= 3) =>
          <<albums[idx].band_name, albums[idx].item_title, albums[idx].item_id>> \in fetched
    /\ (Current /\ Len(trail) >= 2 /\ trail[2] = "download"
          /\ LockOf(albums[idx]) \in DOMAIN files) => Len(trail) = 4

\* An album has gone through all four steps and its lock marker exists.
C7_Witness ==
    /\ Current /\ trail = Lifecycle
    /\ LockOf(albums[idx]) \in DOMAIN files
    /\ ZipOf(albums[idx]) \in DOMAIN files

\* C8: when the run fails or is stopped during resolve, download or extract,
\* or after extract and before the lock step, the album has no lock marker;
\* and an album is skipped only when its lock marker existed, so that the
\* next run fetches such an album again.
C8_NoLockAfterFailure ==
    /\ (pc \in {"failed", "stopped"}
          /\ ended \in {"parse_album", "download_open", "download_get", "extract", "lock"}) =>
          LockOf(albums[idx]) \notin DOMAIN files
    /\ (Current /\ trail = <<"resolve_url", "skip">>) =>
          LockOf(albums[idx]) \in DOMAIN fs0.files

\* C9: right after extract, an archive has its entries in the album's
\* directory and is still at {item_id}.zip; anything else is at
\* {item_title}.mp3 with the bytes downloaded and no longer at {item_id}.zip;
\* and extract never ends the run with an error.
C9_ExtractArchiveOrRename ==
    /\ (pc = "lock" /\ trail = <<"resolve_url", "download", "extract">>) =>
          LET a == albums[idx] IN
          /\ body.kind = "zip" =>
                /\ ZipOf(a) \in DOMAIN files /\ files[ZipOf(a)] = body
                /\ \A n \in ZipNames :
                      /\ (DirOf(a) \o "/" \o n) \in DOMAIN files
                      /\ files[DirOf(a) \o "/" \o n] =
                            [kind |-> "entry", of |-> body.of, name |-> n]
          /\ body.kind # "zip" =>
                /\ Mp3Of(a) \in DOMAIN files /\ files[Mp3Of(a)] = body
                /\ ZipOf(a) \notin DOMAIN files
    /\ trail = <<"resolve_url", "download">> => pc \in {"extract", "stopped"}

\* The download was not an archive and has been renamed.
C9_Witness ==
    /\ pc = "lock" /\ trail = <<"resolve_url", "download", "extract">>
    /\ body.kind = "raw"
    /\ Mp3Of(albums[idx]) \in DOMAIN files
    /\ ZipOf(albums[idx]) \notin DOMAIN files

\* The steps of an album that was finished with: fetched and locked, or skipped.
Skipped == <<"resolve_url", "skip">>

\* C12: albums are processed one after another in list order: every album
\* before the current one went through its steps to done or skip before the
\* next began; once a step has failed the run is over and no step of a later
\* album is taken; and the lock markers of the albums finished before are
\* still in place.
C12_OneAfterAnother ==
    /\ [](/\ pc # "exit" => Len(done) = (IF idx = 0 THEN 0 ELSE idx - 1)
          /\ pc = "exit" => (idx = Len(albums) /\ Len(done) = Len(albums))
          /\ \A i \in 1..Len(done) :
                /\ done[i] \in {Lifecycle, Skipped}
                /\ LockOf(albums[i]) \in DOMAIN files
          /\ ended # None => pc \in {"failed", "stopped"}
          /\ pc = "failed" => (Current /\ trail \notin {Lifecycle, Skipped}))
    /\ [][pc = "failed" => (run' = run + 1 /\ pc' = "loop" /\ idx' = 0
                            /\ files' = files /\ dirs' = dirs)]_vars

\* The second album failed in its download after the first was fetched and
\* locked.
C12_Witness ==
    /\ pc = "failed" /\ ended = "download_get" /\ idx = 2
    /\ done = <<Lifecycle>>
    /\ LockOf(albums[1]) \in DOMAIN files

\* C15: the download step of an album is entered only after resolve_url has
\* given it a file URL that is not None, whatever the download page held.
C15_DownloadOnlyWhenResolved ==
    (pc \in {"download_open", "download_get"} \/ ended \in {"download_open", "download_get"}) =>
        /\ trail # << >> /\ trail[1] = "resolve_url"
        /\ download_url # None

\* C16: when the download page has one or more digital items, the file URL
\* parse_album resolves is the mp3-v0 url of the last of them.
C16_LastEntryWins ==
    (/\ Current /\ trail # << >> /\ trail[1] = "resolve_url"
     /\ "digital_items" \in DOMAIN data
     /\ Len(data.digital_items) >= 1) =>
        download_url = data.digital_items[Len(data.digital_items)].downloads["mp3-v0"].url

\* A page with two digital items has been resolved to the url of the second.
C16_Witness ==
    /\ pc = "fetch_check" /\ trail = <<"resolve_url">>
    /\ "digital_items" \in DOMAIN data
    /\ Len(data.digital_items) = 2
    /\ data.digital_items[1].downloads["mp3-v0"].url = "https://f/x"
    /\ download_url = "https://f/y"

\* The steps the i-th album of this run has taken so far.
TrailOf(i) == IF i <= Len(done) THEN done[i] ELSE trail

\* A step is among the steps taken.
Took(t, step) == \E n \in 1..Len(t) : t[n] = step

\* The same item: same band_name, item_title and item_id.
SameItem(a, b) ==
    a.band_name = b.band_name /\ a.item_title = b.item_title /\ a.item_id = b.item_id

\* C17: of two occurrences of the same item in the list, within one run at
\* most one downloads and at most one extracts; once an occurrence has been
\* finished with, its lock marker exists and a later occurrence takes no
\* download, extract or lock step and, when it is finished with, was skipped.
C17_DuplicateFetchedOnce ==
    \A i, j \in 1..idx :
        (i < j /\ SameItem(albums[i], albums[j])) =>
            /\ ~(Took(TrailOf(i), "download") /\ Took(TrailOf(j), "download"))
            /\ ~(Took(TrailOf(i), "extract") /\ Took(TrailOf(j), "extract"))
            /\ LockOf(albums[i]) \in DOMAIN files
            /\ TrailOf(j) \in {<< >>, <<"resolve_url">>, Skipped}
            /\ j = idx => pc \notin {"download_open", "download_get", "extract", "lock"}
            /\ j <= Len(done) => done[j] = Skipped

\* In a first run over an empty directory the item was fetched and locked at
\* its first occurrence and skipped at its second.
C17_Witness ==
    /\ run = 1 /\ idx = 2 /\ SameItem(albums[1], albums[2])
    /\ done = <<Lifecycle>> /\ trail = Skipped
    /\ net = 1

\* C18: while and after an album is processed, every file that held the
\* download or the extracted entries of an item with another item_id when the
\* processing began is still there with the same content, and the archive
\* and the lock marker of every item with another item_id exist exactly when
\* they did then, unchanged; also for two items of one band_name and
\* item_title.
C18_ItemsIndependentOnDisk ==
    Current =>
        /\ \A p \in DOMAIN fs0.files :
              fs0.files[p].of \notin {0, albums[idx].item_id} =>
                  (p \in DOMAIN files /\ files[p] = fs0.files[p])
        /\ \A b \in {A1, A2, A3} :
              b.item_id # albums[idx].item_id =>
                  \A p \in {ZipOf(b), LockOf(b)} :
                      /\ p \in DOMAIN files <=> p \in DOMAIN fs0.files
                      /\ p \in DOMAIN files => files[p] = fs0.files[p]

====
